---- MODULE Spec2Model ----
(***************************************************************************)
(* The RadioGroup widget block of pothos-widgets (RadioGroup.cpp).         *)
(*                                                                         *)
(* Two threads take steps: the host framework's thread ("caller"), which   *)
(* makes the registered calls (setTitle, setDirection, setValue,           *)
(* setOptions, activate), and the Qt thread ("ui"), which dispatches the   *)
(* queued invocations, delivers the user's clicks and runs the             *)
(* saveState/restoreState slots.                                           *)
(*                                                                         *)
(* A Pothos::Object is a string; Null is the empty Object() and equals()   *)
(* is equality of the strings.  A QRadioButton is a record [text, checked];*)
(* the buttons are children of the one group box, so they are              *)
(* auto-exclusive among themselves (QAbstractButton's rules, modelled by   *)
(* queryCheckedButton, setChecked, notifyChecked and click).               *)
(***************************************************************************)
EXTENDS Integers, Sequences, FiniteSets

VARIABLES
    radioToOption,  \* _radioToOption: <<[first |-> button, second |-> value]>>
    title,          \* QGroupBox::title
    direction,      \* _layout's direction
    queue,          \* queued invocations posted to the widget, oldest first
    signals,        \* payloads of the valueChanged emissions of the last step
    last,           \* the last step: [op, arg, thread, threw, before]
    hist,           \* the calls and user actions since construction (capped)
    input,          \* the option list handed to the call under validation
    slot            \* the Qt thread inside __setOptions: [pc, options, oldValue, deleted]

vars == <<radioToOption, title, direction, queue, signals, last, hist, input, slot>>

----------------------------------------------------------------------------
(* Bounds *)

MaxLen == 2         \* longest option list handed to setOptions
MaxQueue == 2       \* most queued invocations pending at once
MaxHist == 2        \* calls remembered since construction
MaxPending == 1     \* most __setOptions invocations pending at once

(* Program constants *)

\* QVariant(int).toUInt() of a negative int i is 2^32 + i, at least 2^31; the
\* model's integers end at 2^31 - 1, which stands for every such index.
UIntOfNegative == 2147483647

----------------------------------------------------------------------------
(* Objects *)

Null == "Null"                      \* Pothos::Object()
Blob == "Blob"                      \* an Object of a type with no QString conversion
Values == {Null, "42", "xyz"}
Titles == {"My Radio Value"}
Directions == {"LeftToRight", "TopToBottom", "Diagonal"}

Vec(items) == [isVector |-> TRUE, items |-> items]
Scalar == [isVector |-> FALSE, items |-> <<>>]

PairEntries == {Vec(<<"Opt0", "42">>), Vec(<<"Opt1", "xyz">>), Vec(<<"Opt1", Null>>)}
BadEntries == {Scalar, Vec(<<"Opt0">>), Vec(<<"Opt0", "42", "xyz">>), Vec(<<Blob, "42">>)}

SeqsUpTo(S, n) == UNION {[1..k -> S] : k \in 0..n}

OptionInputs == SeqsUpTo(PairEntries \cup BadEntries, MaxLen)

\* the lists the host hands over in a run: every well-formed one, and the
\* malformed ones in which a bad entry stands alone, first or last
OptionCalls ==
    SeqsUpTo(PairEntries, MaxLen)
        \cup {<<b>> : b \in BadEntries}
        \cup {<<Vec(<<"Opt0", "42">>), b>> : b \in BadEntries}
        \cup {<<Scalar, Vec(<<"Opt1", "xyz">>)>>}

canConvertVector(o) == o.isVector
canConvertQString(o) == o \in {"Opt0", "Opt1", "xyz", "My Radio Value"}

Invalid == [valid |-> FALSE, i |-> 0]       \* QVariant()
Variant(n) == [valid |-> TRUE, i |-> n]     \* QVariant(int)
StateInputs == {Invalid} \cup {Variant(n) : n \in -1..MaxLen}

toUInt(state) ==
    IF ~state.valid THEN 0
    ELSE IF state.i < 0 THEN UIntOfNegative
    ELSE state.i

----------------------------------------------------------------------------
(* The radio buttons *)

isChecked(R, i) == R[i].first.checked

RECURSIVE valueFrom(_, _)
value_fromSecond(R) == valueFrom(R, 2)

valueFrom(R, i) ==
    IF i > Len(R) THEN Null
    ELSE IF isChecked(R, i) THEN R[i].second
    ELSE valueFrom(R, i + 1)

value(R) == valueFrom(R, 1)

RECURSIVE saveStateFrom(_, _)
saveStateFrom(R, i) ==
    IF i > Len(R) THEN Invalid
    ELSE IF isChecked(R, i) THEN Variant(i - 1)
    ELSE saveStateFrom(R, i + 1)

saveState(R) == saveStateFrom(R, 1)

\* W is the widget while a slot runs: [radios, emitted]
handleRadioChanged_always(W, toggled) ==
    [W EXCEPT !.emitted = Append(@, value(W.radios))]

handleRadioChanged(W, toggled) ==
    IF ~toggled THEN W
    ELSE [W EXCEPT !.emitted = Append(@, value(W.radios))]

\* Qt: the checked button of q's auto-exclusive group other than q, else q if
\* it is checked, else none (0); a button with no sibling is in no group.
queryCheckedButton(R, q) ==
    IF Len(R) = 1 THEN 0
    ELSE IF \E b \in 1..Len(R) : b # q /\ isChecked(R, b)
         THEN CHOOSE b \in 1..Len(R) :
                  /\ b # q /\ isChecked(R, b)
                  /\ \A c \in 1..(b - 1) : ~(c # q /\ isChecked(R, c))
    ELSE IF isChecked(R, q) THEN q
    ELSE 0

RECURSIVE setChecked(_, _, _)
notifyChecked_none(W, q) == W

notifyChecked(W, q) ==
    LET b == queryCheckedButton(W.radios, q)
    IN IF b # 0 THEN setChecked(W, b, FALSE) ELSE W

\* Qt: no change if the state is the same; the checked button of a group
\* cannot be unchecked; checking a button unchecks the group's checked one
\* first, and toggled(checked) is emitted last.
setChecked(W, q, checked) ==
    IF isChecked(W.radios, q) = checked THEN W
    ELSE IF ~checked /\ queryCheckedButton(W.radios, q) = q THEN W
    ELSE LET W1 == [W EXCEPT !.radios[q].first.checked = checked]
             W2 == IF checked THEN notifyChecked(W1, q) ELSE W1
         IN handleRadioChanged(W2, checked)

click(W, q) ==
    IF isChecked(W.radios, q) /\ queryCheckedButton(W.radios, q) = q THEN W
    ELSE setChecked(W, q, ~isChecked(W.radios, q))

RECURSIVE setValueFrom(_, _, _)
setValueFrom(W, v, i) ==
    IF i > Len(W.radios) THEN W
    ELSE setValueFrom(setChecked(W, i, W.radios[i].second = v), v, i + 1)

clear(R) == <<>>

newRadio_valueAsText(option) ==
    [first |-> [text |-> option.items[2], checked |-> FALSE], second |-> option.items[2]]

newRadio(option) ==
    [first |-> [text |-> option.items[1], checked |-> FALSE], second |-> option.items[2]]

RECURSIVE addOptions(_, _, _)
addOptions(R, options, i) ==
    IF i > Len(options) THEN R
    ELSE addOptions(Append(R, newRadio(options[i])), options, i + 1)

----------------------------------------------------------------------------
(* Validation in setOptions: the first malformed entry throws *)

RECURSIVE validateFrom_anyLabel(_, _)
validateFrom_anyLabel(options, i) ==
    IF i > Len(options) THEN FALSE
    ELSE IF ~canConvertVector(options[i]) THEN TRUE
    ELSE IF Len(options[i].items) # 2 THEN TRUE
    ELSE validateFrom_anyLabel(options, i + 1)

RECURSIVE validateFrom(_, _)
validateFrom(options, i) ==
    IF i > Len(options) THEN FALSE
    ELSE IF ~canConvertVector(options[i]) THEN TRUE
    ELSE IF Len(options[i].items) # 2 THEN TRUE
    ELSE IF ~canConvertQString(options[i].items[1]) THEN TRUE
    ELSE validateFrom(options, i + 1)

throwsDataFormat(options) == validateFrom(options, 1)

----------------------------------------------------------------------------
(* Bookkeeping *)

\* before: the button checked when the step began (as saveState tells it), kept
\* for the steps that act on the buttons in place
Step(op, arg, thread, threw) ==
    [op |-> op, arg |-> arg, thread |-> thread, threw |-> threw,
     before |-> IF op \in {"click", "restoreState", "__setValue"}
                THEN saveState(radioToOption) ELSE Invalid]

More == [op |-> "more", arg |-> Null]

Record(op, arg) ==
    IF Len(hist) < MaxHist /\ (hist = <<>> \/ hist[Len(hist)].op # "more")
    THEN Append(hist, [op |-> op, arg |-> arg])
    ELSE <<More>>

\* the Qt thread is in no slot
Idle == [pc |-> "idle", options |-> <<>>, oldValue |-> Null, deleted |-> {}]

Invocation(method, arg) == [method |-> method, arg |-> arg]

invokeMethod(q, method, arg) == Append(q, Invocation(method, arg))

----------------------------------------------------------------------------
(* Calls of the host framework *)

Constructed ==
    /\ radioToOption = <<>>
    /\ title = ""
    /\ direction = "TopToBottom"
    /\ queue = <<>>
    /\ signals = <<>>
    /\ last = [op |-> "RadioGroup", arg |-> Null, thread |-> "ui", threw |-> FALSE,
               before |-> Invalid]
    /\ hist = <<>>
    /\ slot = Idle

Init ==
    /\ Constructed
    /\ input = <<>>

activate_whenChecked ==
    /\ signals' = IF \E i \in 1..Len(radioToOption) : isChecked(radioToOption, i)
                  THEN <<value(radioToOption)>> ELSE <<>>
    /\ last' = Step("activate", Null, "caller", FALSE)
    /\ hist' = Record("activate", Null)
    /\ UNCHANGED <<radioToOption, title, direction, queue, input, slot>>

activate ==
    /\ signals' = handleRadioChanged([radios |-> radioToOption, emitted |-> <<>>], TRUE).emitted
    /\ last' = Step("activate", Null, "caller", FALSE)
    /\ hist' = Record("activate", Null)
    /\ UNCHANGED <<radioToOption, title, direction, queue, input, slot>>

setTitle(t) ==
    /\ Len(queue) < MaxQueue
    /\ queue' = invokeMethod(queue, "handleSetTitle", t)
    /\ signals' = <<>>
    /\ last' = Step("setTitle", Null, "caller", FALSE)
    /\ hist' = Record("setTitle", t)
    /\ UNCHANGED <<radioToOption, title, direction, input, slot>>

setDirection(d) ==
    /\ direction' = IF d \in {"LeftToRight", "RightToLeft", "TopToBottom", "BottomToTop"}
                    THEN d ELSE direction
    /\ signals' = <<>>
    /\ last' = Step("setDirection", Null, "caller", FALSE)
    /\ hist' = Record("setDirection", d)
    /\ UNCHANGED <<radioToOption, title, queue, input, slot>>

setValue(v) ==
    /\ Len(queue) < MaxQueue
    /\ queue' = invokeMethod(queue, "__setValue", v)
    /\ signals' = <<>>
    /\ last' = Step("setValue", Null, "caller", FALSE)
    /\ hist' = Record("setValue", v)
    /\ UNCHANGED <<radioToOption, title, direction, input, slot>>

setOptions_queueFirst(options) ==
    /\ Len(queue) < MaxQueue
    /\ queue' = invokeMethod(queue, "__setOptions", options)
    /\ IF throwsDataFormat(options)
       THEN /\ last' = Step("setOptions", Null, "caller", TRUE)
            /\ hist' = Record("setOptions threw", Null)
       ELSE /\ last' = Step("setOptions", Null, "caller", FALSE)
            /\ hist' = Record("setOptions", options)
    /\ signals' = <<>>
    /\ UNCHANGED <<radioToOption, title, direction, input, slot>>

setOptions(options) ==
    /\ IF throwsDataFormat(options)
       THEN /\ queue' = queue
            /\ last' = Step("setOptions", Null, "caller", TRUE)
            /\ hist' = Record("setOptions threw", Null)
       ELSE /\ Len(queue) < MaxQueue
            /\ Cardinality({k \in 1..Len(queue) : queue[k].method = "__setOptions"}) < MaxPending
            /\ queue' = invokeMethod(queue, "__setOptions", options)
            /\ last' = Step("setOptions", Null, "caller", FALSE)
            /\ hist' = Record("setOptions", options)
    /\ signals' = <<>>
    /\ UNCHANGED <<radioToOption, title, direction, input, slot>>

----------------------------------------------------------------------------
(* Slots and events on the Qt thread *)

restoreState_clamped(state) ==
    /\ LET index == IF toUInt(state) >= Len(radioToOption)
                    THEN Len(radioToOption) - 1 ELSE toUInt(state)
           W == IF index < 0
                THEN [radios |-> radioToOption, emitted |-> <<>>]
                ELSE setValueFrom([radios |-> radioToOption, emitted |-> <<>>],
                                  radioToOption[index + 1].second, 1)
       IN /\ radioToOption' = W.radios
          /\ signals' = W.emitted
    /\ last' = Step("restoreState", state, "ui", FALSE)
    /\ hist' = Record("restoreState", state)
    /\ UNCHANGED <<title, direction, queue, input, slot>>

restoreState(state) ==
    /\ LET index == toUInt(state)
           W == IF index >= Len(radioToOption)
                THEN [radios |-> radioToOption, emitted |-> <<>>]
                ELSE setValueFrom([radios |-> radioToOption, emitted |-> <<>>],
                                  radioToOption[index + 1].second, 1)
       IN /\ radioToOption' = W.radios
          /\ signals' = W.emitted
    /\ last' = Step("restoreState", state, "ui", FALSE)
    /\ hist' = Record("restoreState", state)
    /\ UNCHANGED <<title, direction, queue, input, slot>>

clickRadio(q) ==
    /\ q \in 1..Len(radioToOption)
    /\ LET W == click([radios |-> radioToOption, emitted |-> <<>>], q)
       IN /\ radioToOption' = W.radios
          /\ signals' = W.emitted
    /\ last' = Step("click", q, "ui", FALSE)
    /\ hist' = Record("click", q)
    /\ UNCHANGED <<title, direction, queue, input, slot>>

handleSetTitle ==
    /\ queue # <<>> /\ Head(queue).method = "handleSetTitle"
    /\ title' = Head(queue).arg
    /\ queue' = Tail(queue)
    /\ signals' = <<>>
    /\ last' = Step("handleSetTitle", Null, "ui", FALSE)
    /\ UNCHANGED <<radioToOption, direction, hist, input, slot>>

SetValueSlot ==
    /\ queue # <<>> /\ Head(queue).method = "__setValue"
    /\ LET W == setValueFrom([radios |-> radioToOption, emitted |-> <<>>], Head(queue).arg, 1)
       IN /\ radioToOption' = W.radios
          /\ signals' = W.emitted
    /\ queue' = Tail(queue)
    \* restores: this is the invocation queued by the __setOptions that just ran
    /\ last' = Step("__setValue",
                     [v |-> Head(queue).arg,
                      restores |-> last.op = "__setOptions" /\ Len(queue) = 1],
                     "ui", FALSE)
    /\ UNCHANGED <<title, direction, hist, input, slot>>

SetOptionsSlot_noRestore ==
    /\ queue # <<>> /\ Head(queue).method = "__setOptions"
    /\ radioToOption' = addOptions(clear(radioToOption), Head(queue).arg, 1)
    /\ queue' = Tail(queue)
    /\ signals' = <<>>
    /\ last' = Step("__setOptions", value(radioToOption), "ui", FALSE)
    /\ UNCHANGED <<title, direction, hist, input, slot>>

SetOptionsSlot ==
    /\ queue # <<>> /\ Head(queue).method = "__setOptions"
    /\ LET oldValue == value(radioToOption)
       IN /\ radioToOption' = addOptions(clear(radioToOption), Head(queue).arg, 1)
          /\ queue' = invokeMethod(Tail(queue), "__setValue", oldValue)
    /\ signals' = <<>>
    /\ last' = Step("__setOptions", value(radioToOption), "ui", FALSE)
    /\ UNCHANGED <<title, direction, hist, input, slot>>

----------------------------------------------------------------------------

Next ==
    \/ activate
    \/ \E t \in Titles : setTitle(t)
    \/ \E d \in Directions : setDirection(d)
    \/ \E v \in Values : setValue(v)
    \/ \E options \in OptionCalls : setOptions(options)
    \/ \E state \in StateInputs : restoreState(state)
    \/ \E q \in 1..MaxLen : clickRadio(q)
    \/ handleSetTitle
    \/ SetValueSlot
    \/ SetOptionsSlot

Spec == Init /\ [][Next]_vars

----------------------------------------------------------------------------
(* setOptions on every bounded list, well-formed or not: one call on a new *)
(* widget, then the Qt thread dispatches what the call queued.             *)

InitValidate ==
    /\ Constructed
    /\ input \in OptionInputs

CallSetOptions ==
    /\ last.op = "RadioGroup"
    /\ setOptions(input)

NextValidate ==
    \/ CallSetOptions
    \/ SetOptionsSlot
    \/ SetValueSlot

SpecValidate == InitValidate /\ [][NextValidate]_vars

----------------------------------------------------------------------------
(* A widget in use: some list of options is installed and the user has     *)
(* selected one of them or none.  The host calls setOptions and then       *)
(* setValue, and the Qt thread dispatches what is queued, at any point.    *)

Selected(R, k) == [i \in 1..Len(R) |-> [R[i] EXCEPT !.first.checked = (i = k)]]

InitInstalled ==
    /\ \E L \in SeqsUpTo(PairEntries, MaxLen) : \E k \in 0..Len(L) :
           radioToOption = Selected(addOptions(<<>>, L, 1), k)
    /\ title = ""
    /\ direction = "TopToBottom"
    /\ queue = <<>>
    /\ signals = <<>>
    /\ last = [op |-> "installed", arg |-> Null, thread |-> "ui", threw |-> FALSE,
               before |-> Invalid]
    /\ hist = <<>>
    /\ input = <<>>
    /\ slot = Idle

CallSetOptionsThenSetValue ==
    \/ /\ hist = <<>>
       /\ \E options \in OptionCalls : setOptions(options)
    \/ /\ Len(hist) = 1
       /\ \E v \in Values : setValue(v)

NextInstalled ==
    \/ CallSetOptionsThenSetValue
    \/ SetOptionsSlot
    \/ SetValueSlot

SpecInstalled == InitInstalled /\ [][NextInstalled]_vars

----------------------------------------------------------------------------
(* The two threads at the grain of __setOptions' statements.  No lock      *)
(* orders the host thread's value() and activate() against the Qt thread,  *)
(* so a call can fall between any two statements of the slot.              *)

\* value() while the buttons in the set DOMAIN g are deleted: isChecked() of a
\* deleted button reads freed memory and may answer either way, g[i]
RECURSIVE racingValueFrom(_, _, _)
racingValueFrom(R, g, i) ==
    IF i > Len(R) THEN [result |-> Null, dangling |-> FALSE]
    ELSE IF i \in DOMAIN g
         THEN IF g[i] THEN [result |-> R[i].second, dangling |-> TRUE]
              ELSE [racingValueFrom(R, g, i + 1) EXCEPT !.dangling = TRUE]
    ELSE IF isChecked(R, i) THEN [result |-> R[i].second, dangling |-> FALSE]
    ELSE racingValueFrom(R, g, i + 1)

CallValue ==
    /\ \E g \in [slot.deleted -> BOOLEAN] :
           last' = Step("value", racingValueFrom(radioToOption, g, 1), "caller", FALSE)
    /\ signals' = <<>>
    /\ UNCHANGED <<radioToOption, title, direction, queue, hist, input, slot>>

CallActivate ==
    /\ \E g \in [slot.deleted -> BOOLEAN] :
           LET read == racingValueFrom(radioToOption, g, 1)
           IN /\ signals' = <<read.result>>
              /\ last' = Step("activate", read, "caller", FALSE)
    /\ hist' = Record("activate", Null)
    /\ UNCHANGED <<radioToOption, title, direction, queue, input, slot>>

BeginSetOptions ==
    /\ slot.pc = "idle"
    /\ queue # <<>> /\ Head(queue).method = "__setOptions"
    /\ slot' = [pc |-> "clear", options |-> Head(queue).arg,
                oldValue |-> value(radioToOption), deleted |-> {}]
    /\ queue' = Tail(queue)
    /\ signals' = <<>>
    /\ last' = Step("__setOptions: value", Null, "ui", FALSE)
    /\ UNCHANGED <<radioToOption, title, direction, hist, input>>

DeleteRadio ==
    /\ slot.pc = "clear"
    /\ Cardinality(slot.deleted) < Len(radioToOption)
    /\ slot' = [slot EXCEPT !.deleted = @ \cup {Cardinality(@) + 1}]
    /\ signals' = <<>>
    /\ last' = Step("__setOptions: delete", Null, "ui", FALSE)
    /\ UNCHANGED <<radioToOption, title, direction, queue, hist, input>>

ClearVector ==
    /\ slot.pc = "clear"
    /\ Cardinality(slot.deleted) = Len(radioToOption)
    /\ radioToOption' = clear(radioToOption)
    /\ slot' = [slot EXCEPT !.pc = "build", !.deleted = {}]
    /\ signals' = <<>>
    /\ last' = Step("__setOptions: clear", Null, "ui", FALSE)
    /\ UNCHANGED <<title, direction, queue, hist, input>>

PushBack ==
    /\ slot.pc = "build"
    /\ Len(radioToOption) < Len(slot.options)
    /\ radioToOption' = Append(radioToOption, newRadio(slot.options[Len(radioToOption) + 1]))
    /\ signals' = <<>>
    /\ last' = Step("__setOptions: push_back", Null, "ui", FALSE)
    /\ UNCHANGED <<title, direction, queue, hist, input, slot>>

EndSetOptions ==
    /\ slot.pc = "build"
    /\ Len(radioToOption) = Len(slot.options)
    /\ queue' = invokeMethod(queue, "__setValue", slot.oldValue)
    /\ slot' = Idle
    /\ signals' = <<>>
    /\ last' = Step("__setOptions", slot.oldValue, "ui", FALSE)
    /\ UNCHANGED <<radioToOption, title, direction, hist, input>>

NextRace ==
    \/ \E options \in OptionCalls : setOptions(options)
    \/ CallValue
    \/ CallActivate
    \/ BeginSetOptions
    \/ DeleteRadio
    \/ ClearVector
    \/ PushBack
    \/ EndSetOptions
    \/ slot.pc = "idle" /\ SetValueSlot

SpecRace == InitInstalled /\ [][NextRace]_vars

----------------------------------------------------------------------------
(* Helpers of the properties *)

Checked(R) == {i \in 1..Len(R) : R[i].first.checked}

Carries(R, v) == \E i \in 1..Len(R) : R[i].second = v

WellFormed(e) ==
    /\ e.isVector
    /\ Len(e.items) = 2
    /\ e.items[1] \in {"Opt0", "Opt1"}

Setters == {"setTitle", "setDirection", "setOptions", "setValue"}

----------------------------------------------------------------------------
\* C1: setOptions raises the data-format error exactly when some entry of the
\* list is not a vector, or is a vector whose size is not 2, or is a pair whose
\* label does not convert to text; a list of well-formed pairs (the empty list
\* too) raises nothing.
C1_RaisesIffMalformed ==
    last.op = "setOptions" =>
        (last.threw <=> \E i \in 1..Len(input) : ~WellFormed(input[i]))

C1_Witness ==
    /\ last.op = "setOptions" /\ last.threw
    /\ Len(input) = 2 /\ WellFormed(input[1]) /\ ~WellFormed(input[2])

\* C2: a setOptions call that fails validation queues nothing and changes
\* nothing: the buttons, the title, the direction and the queue are as they
\* were before the call, so what follows is what would have followed without it.
C2_FailedCallChangesNothing ==
    [][(last'.op = "setOptions" /\ last'.threw)
          => UNCHANGED <<radioToOption, title, direction, queue>>]_vars

C2_Witness ==
    /\ last.op = "setOptions" /\ last.threw
    /\ Checked(radioToOption) # {}
    /\ queue # <<>>

\* C3: when __setOptions has replaced the options and the __setValue it queued
\* runs next, value() is the value that was selected before the replacement if a
\* new option carries an equal value, and the empty Object if none does.
C3_PreviousValueRestored ==
    [][(last.op = "__setOptions" /\ Len(queue) = 1 /\ last'.op = "__setValue")
          => value(radioToOption') =
                 IF Carries(radioToOption', last.arg) THEN last.arg ELSE Null]_vars

C3_Witness ==
    /\ last.op = "__setValue" /\ last.arg.restores
    /\ last.arg.v # Null
    /\ Len(radioToOption) = 2
    /\ value(radioToOption) = last.arg.v

\* C4: a user's selection of a button that is not checked emits valueChanged
\* exactly once, with the value paired with that button, whether no button or
\* another button was checked before.
C4_SelectionEmitsOnce ==
    [][(last'.op = "click" /\ ~isChecked(radioToOption, last'.arg))
          => signals' = <<radioToOption[last'.arg].second>>]_vars

C4_Witness ==
    /\ last.op = "click"
    /\ last.before.valid /\ last.before.i + 1 # last.arg
    /\ radioToOption[last.before.i + 1].second # radioToOption[last.arg].second
    /\ signals = <<radioToOption[last.arg].second>>

\* C5: in every reachable state at most one radio button is checked.
C5_AtMostOneChecked == Cardinality(Checked(radioToOption)) <= 1

C5_Witness ==
    /\ last.op = "__setValue"
    /\ last.before.valid
    /\ Checked(radioToOption) # {}
    /\ Checked(radioToOption) # {last.before.i + 1}

\* C6: restoreState(i) with i below the number of options leaves the button
\* at index i checked, so that saveState() returns i, also when two options
\* carry equal values.
C6_RestoreSelectsIndex ==
    (last.op = "restoreState" /\ last.arg.valid /\ toUInt(last.arg) < Len(radioToOption))
        => saveState(radioToOption) = Variant(toUInt(last.arg))

\* C7: restoreState with an index at or beyond the number of options changes
\* neither the options nor the checked button, queues nothing and emits nothing.
C7_OutOfRangeIsNoOp ==
    [][(last'.op = "restoreState" /\ toUInt(last'.arg) >= Len(radioToOption))
          => /\ UNCHANGED <<radioToOption, title, direction, queue>>
             /\ signals' = <<>>]_vars

C7_Witness ==
    /\ last.op = "restoreState" /\ last.arg.valid
    /\ toUInt(last.arg) >= Len(radioToOption)
    /\ Checked(radioToOption) # {}

\* C8: a call of setTitle, setDirection, setOptions or setValue on the host's
\* thread changes no widget state itself (title, layout direction, buttons,
\* checked state); the changes happen in invocations dispatched on the Qt thread.
C8_SettersDeferMutation ==
    [][(last'.thread = "caller" /\ last'.op \in Setters)
          => UNCHANGED <<radioToOption, title, direction>>]_vars

\* C9: on a new widget, setOptions(options) then setValue(value), with every
\* queued invocation dispatched, ends with value() = value whenever an option
\* carries that value.
C9_ValueIsInitialSelection ==
    (/\ Len(hist) = 2
     /\ hist[1].op = "setOptions" /\ hist[2].op = "setValue"
     /\ queue = <<>>
     /\ \E i \in 1..Len(hist[1].arg) : hist[1].arg[i].items[2] = hist[2].arg)
        => value(radioToOption) = hist[2].arg

\* C10 as stated: value() is the value paired with the first checked button,
\* and it is the empty Object exactly when no button is checked.
C10_EmptyExactlyWhenNoneChecked ==
    /\ Checked(radioToOption) # {}
          => \E i \in Checked(radioToOption) :
                 /\ \A j \in Checked(radioToOption) : i <= j
                 /\ value(radioToOption) = radioToOption[i].second
    /\ value(radioToOption) = Null <=> Checked(radioToOption) = {}

\* C10 as amended: value() is the value paired with the first checked button
\* (the empty Object when that option's value is the empty Object), and it is
\* the empty Object when no button is checked.
C10_ReverseLookup ==
    /\ Checked(radioToOption) # {}
          => \E i \in Checked(radioToOption) :
                 /\ \A j \in Checked(radioToOption) : i <= j
                 /\ value(radioToOption) = radioToOption[i].second
    /\ Checked(radioToOption) = {} => value(radioToOption) = Null

C10_Witness ==
    /\ Checked(radioToOption) # {}
    /\ value(radioToOption) = Null
    /\ last.op = "click"

\* C11: when __setOptions has run for a list L, the widget holds exactly
\* Len(L) radio buttons, the i-th with the label and the value of L[i], all of
\* them new (unchecked); nothing of the earlier buttons and options remains.
C11_InstalledWholesale ==
    [][last'.op = "__setOptions"
          => LET L == Head(queue).arg
             IN /\ Len(radioToOption') = Len(L)
                /\ \A i \in 1..Len(L) :
                       /\ radioToOption'[i].first.text = L[i].items[1]
                       /\ radioToOption'[i].second = L[i].items[2]
                       /\ ~radioToOption'[i].first.checked]_vars

C11_Witness ==
    /\ last.op = "__setOptions" /\ last.arg # Null
    /\ Len(radioToOption) = 2
    /\ radioToOption[1].first.text # radioToOption[2].first.text

\* C12: every activate call emits valueChanged exactly once, with value() as it
\* is at the call (the empty Object when no button is checked), and changes
\* neither the options, nor the selection, nor the queue.
C12_ActivateEmitsCurrentValue ==
    [][last'.op = "activate"
          => /\ signals' = <<IF Checked(radioToOption) = {} THEN Null
                              ELSE radioToOption[CHOOSE i \in Checked(radioToOption) :
                                       \A j \in Checked(radioToOption) : i <= j].second>>
             /\ UNCHANGED <<radioToOption, title, direction, queue>>]_vars

C12_Witness ==
    /\ last.op = "activate"
    /\ radioToOption # <<>> /\ Checked(radioToOption) = {}
    /\ signals = <<Null>>

\* C13: on a widget in use, setOptions(L) then setValue(v) with v among the
\* values of L and nothing else called or selected: once the queue is drained
\* value() is v, whatever was selected before.
C13_LaterSetValueWins ==
    (/\ Len(hist) = 2 /\ queue = <<>>
     /\ hist[1].op = "setOptions" /\ hist[2].op = "setValue")
        => LET L == hist[1].arg
               v == hist[2].arg
           IN v \in {L[i].items[2] : i \in 1..Len(L)} => value(radioToOption) = v

\* C14: restoreState(saveState()) leaves the checked button exactly as it was,
\* also when no button is checked (the saved state is then the invalid QVariant
\* and restoring it leaves every button unchecked).
C14_SaveRestoreIsIdentity ==
    [][(last'.op = "restoreState" /\ last'.arg = saveState(radioToOption))
          => radioToOption' = radioToOption]_vars

\* C15: one programmatic change of the value (a __setValue dispatched for
\* setValue, or the one restoreState makes) emits valueChanged at most once, and
\* not at all when the button already checked carries an equal value, also when
\* several options carry equal values.
C15_ProgrammaticChangeEmitsAtMostOnce ==
    [][(last'.op \in {"__setValue", "restoreState"})
          => LET v == IF last'.op = "__setValue" THEN Head(queue).arg
                      ELSE IF toUInt(last'.arg) < Len(radioToOption)
                           THEN radioToOption[toUInt(last'.arg) + 1].second
                           ELSE Null
                 applied == last'.op = "__setValue" \/ toUInt(last'.arg) < Len(radioToOption)
             IN /\ Len(signals') <= 1
                /\ (applied /\ \E i \in Checked(radioToOption) : radioToOption[i].second = v)
                       => signals' = <<>>]_vars

\* C17: a __setValue(v) with v equal to no option's value leaves the checked
\* button (or the none-checked state) as it was and emits no valueChanged.
C17_UnknownValueKeepsSelection ==
    [][(last'.op = "__setValue" /\ ~Carries(radioToOption, Head(queue).arg))
          => /\ radioToOption' = radioToOption
             /\ signals' = <<>>]_vars

\* C16: a value() or activate call of the host's thread that falls inside the
\* Qt thread's __setOptions reads no radio button that clear() has deleted and
\* no partly rebuilt list: it sees the options wholly as before or wholly as
\* after the replacement.
C16_ReadsNeverRace ==
    (last.op \in {"value", "activate"} /\ slot.pc # "idle")
        => /\ ~last.arg.dangling
           /\ ~(/\ slot.pc = "build"
                /\ 0 < Len(radioToOption)
                /\ Len(radioToOption) < Len(slot.options))

====
